---------------------------- MODULE Spec2Model ----------------------------
(***************************************************************************)
(* Model of the audio-viz waveform pipeline: the streaming orchestrator    *)
(* WaveformFilter (src/src/filter.rs) with its three-band filter bank and  *)
(* bin accumulators, the 8-bit quantised value WaveformVal and the derived *)
(* metrics of FilteredWaveformBin (src/src/waveform.rs).                   *)
(*                                                                         *)
(* Number representation.  TLC has integers only, so every float of the    *)
(* program lives on a fixed-point grid:                                    *)
(*   - sample values, peaks and energies: multiples of 1/One;              *)
(*   - pending_samples_count and samples_per_bin: multiples of 2^-17       *)
(*     (PendUnit), with RoundF32 rounding every result to the 24-bit       *)
(*     significand of an f32.  Below 128.0 every multiple of 2^-17 is an   *)
(*     f32, so on the configurations drawn here the model is bit-exact;    *)
(*   - biquad coefficients: multiples of 1/CoefScale.                      *)
(* A quantised encoding floor(x * 256) of a grid value is computed         *)
(* exactly, because One is a multiple of 256.                              *)
(***************************************************************************)
EXTENDS Integers, Sequences, FiniteSets, TLC

\* ------------------------------------------------------------------ grids

\* 1.0 on the sample / peak / energy grid.
One == 4 * 256

\* 1.0 on the pending-count grid: the ulp of an f32 in [64, 128) is 2^-17.
PendUnit == 2 ^ 17

\* 1.0 on the biquad coefficient grid.
CoefScale == 2 ^ 16

\* 1.0 on the grid of the inputs drawn for from_f32: it holds the quarters and
\* the decoded codes c/255.
ValDen == 4 * 255

\* 1.0 on the grid on which exp2 is computed.
ExpScale == 2 ^ 14

\* ----------------------------------------------------------------- bounds

\* Longest stream fed to one WaveformFilter.
MaxSamples == 131

\* Most non-zero samples in one stream.
MaxSpikes == 1

\* Longest silent stream fed at the setting of LongBinsPerSecChoices.
MaxLongSamples == 2945

\* Largest input of from_f32 drawn, in units of 1/ValDen (1530/1020 = 1.5).
MaxValNum == 1530

\* Longest constant stream summarised into one bin for the derived metrics.
MaxTone == 4

\* ------------------------------------------------------ program constants

MIN_SAMPLES_PER_BIN == 64

DEFAULT_SAMPLE_RATE_HZ == 44100

DEFAULT_BINS_PER_SEC == 150

MAX_VAL == 255

\* ---------------------------------------------------------------- helpers

Min(a, b) == IF a <= b THEN a ELSE b

Max(a, b) == IF a >= b THEN a ELSE b

Abs(a) == IF a >= 0 THEN a ELSE 0 - a

\* Division rounding toward zero (the sign-symmetric rounding of a float).
TruncDiv(a, b) == IF a >= 0 THEN a \div b ELSE 0 - ((0 - a) \div b)

RECURSIVE ISqrtIn(_, _, _)
ISqrtIn(n, lo, hi) ==
  IF lo >= hi THEN lo
  ELSE LET mid == (lo + hi + 1) \div 2
       IN  IF mid * mid <= n THEN ISqrtIn(n, mid, hi) ELSE ISqrtIn(n, lo, mid - 1)

\* floor(sqrt(n)), n < 2^31.
ISqrt(n) == ISqrtIn(n, 0, Min(n, 46340))

RECURSIVE ICbrtIn(_, _, _)
ICbrtIn(n, lo, hi) ==
  IF lo >= hi THEN lo
  ELSE LET mid == (lo + hi + 1) \div 2
       IN  IF mid * mid * mid <= n THEN ICbrtIn(n, mid, hi) ELSE ICbrtIn(n, lo, mid - 1)

\* floor(cbrt(n)), n < 2^31.
ICbrt(n) == ICbrtIn(n, 0, Min(n, 1290))

RECURSIVE Exp2Frac(_, _, _, _, _)
\* 2^(num/den) * acc for 0 <= num/den < 1, one binary digit of the exponent per
\* step: root is 2^(1/2), 2^(1/4), ... on the ExpScale grid.
Exp2Frac(num, den, root, acc, bits) ==
  IF bits = 0 \/ num = 0 THEN acc
  ELSE IF 2 * num >= den
       THEN Exp2Frac(2 * num - den, den, ISqrt(root * ExpScale), (acc * root) \div ExpScale, bits - 1)
       ELSE Exp2Frac(2 * num, den, ISqrt(root * ExpScale), acc, bits - 1)

\* f32::exp2 of num/den in [0, 1], on the ExpScale grid.
Exp2(num, den) ==
  IF num >= den THEN 2 * ExpScale
  ELSE Exp2Frac(num, den, ISqrt(2 * ExpScale * ExpScale), ExpScale, 14)

\* ------------------------------------------------------------ f32 rounding

RECURSIVE Ulp(_)
\* Spacing of the f32 values around v (v in units of 2^-17): 24 significant bits.
Ulp(v) == IF v < 2 ^ 24 THEN 1 ELSE 2 * Ulp(v \div 2)

\* v + frac (0 <= frac = fnum/fden < 1 unit) rounded to the nearest f32, ties to even.
RoundF32Frac(v, fnum, fden) ==
  LET u    == Ulp(v)
      low  == v % u
      base == v - low
      twice == 2 * (low * fden + fnum)
  IN  IF twice < u * fden THEN base
      ELSE IF twice > u * fden THEN base + u
      ELSE IF (base \div u) % 2 = 0 THEN base ELSE base + u

RoundF32(v) == RoundF32Frac(v, 0, 1)

\* ------------------------------------------------------------- WaveformVal

\* `mapped as u8`: truncation toward zero, saturating at the ends of u8.
AsU8(num, den) == Min(Max(num \div den, 0), MAX_VAL)

FromF32Round(num, den) == AsU8(2 * Min(num * (MAX_VAL + 1), MAX_VAL * den) + den, 2 * den)

\* from_f32 scaling by MAX_VAL instead of MAX_VAL + 1.
FromF32Max(num, den) == AsU8(Min(num * MAX_VAL, MAX_VAL * den), den)

\* WaveformVal::from_f32 of the value num/den >= 0:
\* (val * 256.0).min(255.0) as u8.
FromF32(num, den) == AsU8(Min(num * (MAX_VAL + 1), MAX_VAL * den), den)

\* WaveformVal::to_f32: the value c / 255 as the fraction <<numerator, denominator>>.
ToF32(c) == <<c, MAX_VAL>>

\* -------------------------------------------------------------- filter bank

\* Butterworth (Q = 1/sqrt 2) coefficients at 44.1 kHz, normalised by a0.
LowLpCoef == [b0 |-> 13, b1 |-> 26, b2 |-> 13, a1 |-> -128431, a2 |-> 62948]

LowHpCoef == [b0 |-> 64488, b1 |-> -128976, b2 |-> 64488, a1 |-> -128959, a2 |-> 63457]

HighLpCoef == [b0 |-> 731, b1 |-> 1462, b2 |-> 731, a1 |-> -110089, a2 |-> 47477]

HighHpCoef == [b0 |-> 58072, b1 |-> -116144, b2 |-> 58072, a1 |-> -115291, a2 |-> 51461]

\* A section whose first delay register starts at 1.0 instead of zero.
BiquadHot(c) == [c |-> c, s1 |-> One * CoefScale, s2 |-> 0]

\* DirectForm2Transposed::new: the delay registers start at zero.
NewBiquad(c) == [c |-> c, s1 |-> 0, s2 |-> 0]

\* ThreeBandFilterBank::new
NewFilterBank ==
  [low_lp  |-> <<NewBiquad(LowLpCoef), NewBiquad(LowLpCoef)>>,
   mid_bp  |-> <<NewBiquad(LowHpCoef), NewBiquad(HighLpCoef)>>,
   high_hp |-> <<NewBiquad(HighHpCoef), NewBiquad(HighHpCoef)>>]

\* DirectForm2Transposed::run: the output sample and the section's next state.
\* s1 and s2 are kept scaled by CoefScale.
BiquadRun(f, x) ==
  LET out == TruncDiv(f.s1 + f.c.b0 * x, CoefScale)
  IN  [out |-> out,
       f   |-> [c  |-> f.c,
                s1 |-> f.s2 + f.c.b1 * x - f.c.a1 * out,
                s2 |-> f.c.b2 * x - f.c.a2 * out]]

\* fold(all, |sample, filter| filter.run(sample)) over the two sections of a band.
CascadeRun(pair, x) ==
  LET r1 == BiquadRun(pair[1], x)
      r2 == BiquadRun(pair[2], r1.out)
  IN  [out |-> r2.out, pair |-> <<r1.f, r2.f>>]

\* ThreeBandFilterBank::shape_input_signal: the identity.
ShapeInputSignal(x) == x

\* ThreeBandFilterBank::run: the filtered sample and the bank's next state.
FilterBankRun(fb, x) ==
  LET all  == ShapeInputSignal(x)
      low  == CascadeRun(fb.low_lp, all)
      mid  == CascadeRun(fb.mid_bp, all)
      high == CascadeRun(fb.high_hp, all)
  IN  [sample |-> [all |-> all, low |-> low.out, mid |-> mid.out, high |-> high.out],
       bank   |-> [low_lp |-> low.pair, mid_bp |-> mid.pair, high_hp |-> high.pair]]

\* ------------------------------------------------------------- accumulators

\* WaveformBinAccumulator::default
NewBandAcc == [peak |-> 0, rms_sum |-> 0]

\* WaveformBinAccumulator::add_sample
BandAddSample(a, s) == [peak |-> Max(a.peak, Abs(s)), rms_sum |-> a.rms_sum + s * s]

\* The energy of WaveformBinAccumulator::finish on the sample grid:
\* ((rms_sum / rms_div).sqrt() * SQRT_2).min(1.0).  With rms_div = 0 the
\* quotient is NaN or infinite and f64::min(1.0) yields 1.0.
BandEnergy(a, rms_div) ==
  IF rms_div = 0 THEN One ELSE Min(ISqrt((2 * a.rms_sum) \div rms_div), One)

\* WaveformBinAccumulator::finish
BandFinish(a, rms_div) ==
  [peak   |-> FromF32(a.peak, One),
   energy |-> FromF32(BandEnergy(a, rms_div), One)]

\* FilteredWaveformBinAccumulator::default
NewAccumulator ==
  [sample_count |-> 0, all |-> NewBandAcc, low |-> NewBandAcc,
   mid |-> NewBandAcc, high |-> NewBandAcc]

\* FilteredWaveformBinAccumulator::add_sample, given the filtered sample.
AccAddSample(acc, fs) ==
  [sample_count |-> acc.sample_count + 1,
   all  |-> BandAddSample(acc.all, fs.all),
   low  |-> BandAddSample(acc.low, fs.low),
   mid  |-> BandAddSample(acc.mid, fs.mid),
   high |-> BandAddSample(acc.high, fs.high)]

None == [some |-> FALSE]

\* The four per-band finish calls of FilteredWaveformBinAccumulator::finish.
\* rms_div is kept in the bin to tell how many samples it summarises.
FinishBands(acc) ==
  [some |-> TRUE, rms_div |-> acc.sample_count,
   all  |-> BandFinish(acc.all, acc.sample_count),
   low  |-> BandFinish(acc.low, acc.sample_count),
   mid  |-> BandFinish(acc.mid, acc.sample_count),
   high |-> BandFinish(acc.high, acc.sample_count)]

\* finish without the early return on sample_count == 0.
AccFinishUnchecked(acc) == FinishBands(acc)

\* FilteredWaveformBinAccumulator::finish
AccFinish(acc) == IF acc.sample_count = 0 THEN None ELSE FinishBands(acc)

\* ------------------------------------------------------ FilteredWaveformBin

\* The value a WaveformBin stores beside its peak: filter.rs writes it as
\* `energy`, waveform.rs declares and reads it as `ratio`.
Ratio(band) == band.energy

\* std::f32::consts::SQRT_2 on the sample grid.
Sqrt2 == ISqrt(2 * One * One)

\* The result of 0.0 / 0.0.
NaN == 0 - 1

\* to_f32().exp2() - 1.0: the inverse of the log2(1 + x) scaling, on the sample grid.
UndoLog2(code) ==
  LET f == ToF32(code)
  IN  (Exp2(f[1], f[2]) - ExpScale) \div (ExpScale \div One)

\* FilteredWaveformBin::ratio_amplitude_lin
RatioAmplitudeLin(bin) == Min((UndoLog2(Ratio(bin.all)) * Sqrt2) \div One, One)

\* spectral_flatness without the branch on a zero arithmetic mean.
SpectralFlatnessNoBranch(bin) ==
  LET low  == UndoLog2(Ratio(bin.low))
      mid  == UndoLog2(Ratio(bin.mid))
      high == UndoLog2(Ratio(bin.high))
      arithmetic_mean == (low + mid + high) \div 3
      geometric_mean  == ICbrt(low * mid * high)
  IN  IF arithmetic_mean = 0 THEN NaN
      ELSE (geometric_mean * One) \div arithmetic_mean

\* FilteredWaveformBin::spectral_flatness, on the sample grid.
SpectralFlatness(bin) ==
  LET low  == UndoLog2(Ratio(bin.low))
      mid  == UndoLog2(Ratio(bin.mid))
      high == UndoLog2(Ratio(bin.high))
      arithmetic_mean == (low + mid + high) \div 3
      geometric_mean  == ICbrt(low * mid * high)
  IN  IF arithmetic_mean = 0 THEN One
      ELSE (geometric_mean * One) \div arithmetic_mean

\* The bin of tests::spectral_flatness_one: every band carries the code v.
FlatBin(v) ==
  [some |-> TRUE, rms_div |-> 1,
   all  |-> [peak |-> v, energy |-> v], low  |-> [peak |-> v, energy |-> v],
   mid  |-> [peak |-> v, energy |-> v], high |-> [peak |-> v, energy |-> v]]

\* ----------------------------------------------------------- WaveformFilter

\* sample_rate_hz / bins_per_sec as an f32 on the pending-count grid.
DivF32(a, b) ==
  LET r == a % b
  IN  RoundF32Frac((a \div b) * PendUnit + (r * PendUnit) \div b, (r * PendUnit) % b, b)

\* WaveformFilter::new: (sample_rate_hz / bins_per_sec).max(MIN_SAMPLES_PER_BIN)
SamplesPerBin(sample_rate_hz, bins_per_sec) ==
  Max(DivF32(sample_rate_hz, bins_per_sec), MIN_SAMPLES_PER_BIN * PendUnit)

\* The bins-per-second settings drawn at construction, at 44.1 kHz: 44.1
\* samples per bin (raised to the minimum of 64) and 64.0058...
BinsPerSecChoices == {1000, 689}

\* A setting whose samples_per_bin, 127.826087..., lies within one sample of a
\* power of two, so that pending_samples_count + 1.0 is rounded.
LongBinsPerSecChoices == {345}

\* The samples a caller feeds: silence and a full-scale negative spike.
Samples == {0, 0 - One}

\* ------------------------------------------------------------------- state

VARIABLES
  pending_samples_count,  \* WaveformFilter.pending_samples_count (units of 2^-17)
  samples_per_bin,        \* WaveformFilter.samples_per_bin (units of 2^-17)
  filter_bank,            \* WaveformFilter.filter_bank
  filtered_accumulator,   \* WaveformFilter.filtered_accumulator
  pc,                     \* "running" until finish() has consumed the filter
  ret,                    \* what the last add_sample or finish call returned
  assert_ok,              \* no debug_assert!(rms_div > 0.0) has failed so far
  fed,                    \* history: number of add_sample calls so far
  spikes,                 \* history: number of non-zero samples fed so far
  last_sample,            \* history: the argument of the last add_sample call
  win,                    \* history: the samples fed since the last returned bin
  ret_win,                \* history: win as it was when the last call began
  bins_from_add,          \* history: number of bins add_sample has returned
  samples_from_add,       \* history: sum of rms_div over those bins
  samples_returned,       \* history: sum of rms_div over all returned bins
  call,                   \* the pure function under call, with its arguments
  result                  \* what that call returned, once it has

vars ==
  <<pending_samples_count, samples_per_bin, filter_bank, filtered_accumulator,
    pc, ret, assert_ok, fed, spikes, last_sample, win, ret_win, bins_from_add,
    samples_from_add, samples_returned, call, result>>

\* The WaveformFilter as one value.
Self ==
  [pending_samples_count |-> pending_samples_count,
   samples_per_bin       |-> samples_per_bin,
   filter_bank           |-> filter_bank,
   filtered_accumulator  |-> filtered_accumulator]

\* WaveformFilter::new
NewWaveformFilter(sample_rate_hz, bins_per_sec) ==
  [pending_samples_count |-> 0,
   samples_per_bin       |-> SamplesPerBin(sample_rate_hz, bins_per_sec),
   filter_bank           |-> NewFilterBank,
   filtered_accumulator  |-> NewAccumulator]

\* The summary of no samples: max |s|, sum of s^2 and count of the window.
EmptyWin == [max |-> 0, sq |-> 0, count |-> 0]

WinAdd(w, x) == [max |-> Max(w.max, Abs(x)), sq |-> w.sq + x * x, count |-> w.count + 1]

\* finish_bin finishing a copy of the accumulator and leaving it in place.
FinishBinKeep(w) == [w |-> w, bin |-> AccFinish(w.filtered_accumulator)]

\* WaveformFilter::finish_bin: std::mem::take(&mut self.filtered_accumulator).finish()
FinishBin(w) ==
  [w   |-> [w EXCEPT !.filtered_accumulator = NewAccumulator],
   bin |-> AccFinish(w.filtered_accumulator)]

\* add_sample feeding and counting the sample first and testing the bin
\* boundary on the incremented count.
AddSampleStepEager(w, x) ==
  LET run == FilterBankRun(w.filter_bank, x)
      fedw == [w EXCEPT !.filtered_accumulator = AccAddSample(@, run.sample),
                        !.filter_bank = run.bank,
                        !.pending_samples_count = RoundF32(@ + PendUnit)]
  IN  IF fedw.pending_samples_count >= fedw.samples_per_bin
      THEN FinishBin([fedw EXCEPT !.pending_samples_count =
                                    RoundF32(@ - fedw.samples_per_bin)])
      ELSE [w |-> fedw, bin |-> None]

\* add_sample feeding the sample into the accumulator before the boundary test.
AddSampleStepFeedFirst(w, x) ==
  LET run == FilterBankRun(w.filter_bank, x)
      fedw == [w EXCEPT !.filtered_accumulator = AccAddSample(@, run.sample),
                        !.filter_bank = run.bank]
      fb  == IF fedw.pending_samples_count >= fedw.samples_per_bin
             THEN FinishBin([fedw EXCEPT !.pending_samples_count =
                                           RoundF32(@ - fedw.samples_per_bin)])
             ELSE [w |-> fedw, bin |-> None]
  IN  [w   |-> [fb.w EXCEPT !.pending_samples_count = RoundF32(@ + PendUnit)],
       bin |-> fb.bin]

\* add_sample restarting the pending count at zero instead of keeping the residual.
AddSampleStepReset(w, x) ==
  LET fb  == IF w.pending_samples_count >= w.samples_per_bin
             THEN FinishBin([w EXCEPT !.pending_samples_count = 0])
             ELSE [w |-> w, bin |-> None]
      run == FilterBankRun(fb.w.filter_bank, x)
  IN  [w   |-> [fb.w EXCEPT !.filtered_accumulator = AccAddSample(@, run.sample),
                            !.filter_bank = run.bank,
                            !.pending_samples_count = RoundF32(@ + PendUnit)],
       bin |-> fb.bin]

\* WaveformFilter::add_sample: the filter after the call and the returned bin.
AddSampleStep(w, x) ==
  LET fb  == IF w.pending_samples_count >= w.samples_per_bin
             THEN FinishBin([w EXCEPT !.pending_samples_count =
                                        RoundF32(@ - w.samples_per_bin)])
             ELSE [w |-> w, bin |-> None]
      run == FilterBankRun(fb.w.filter_bank, x)
  IN  [w   |-> [fb.w EXCEPT !.filtered_accumulator = AccAddSample(@, run.sample),
                            !.filter_bank = run.bank,
                            !.pending_samples_count = RoundF32(@ + PendUnit)],
       bin |-> fb.bin]

\* WaveformFilter::finish
FinishStep(w) == FinishBin(w)

\* The debug_assert!(rms_div > 0.0) of every per-band finish behind bin b.
RmsDivAsserted(b) == b.some => b.rms_div > 0

\* No call of a pure function is under way.
NoCall == call = [fn |-> "none"] /\ result = [done |-> FALSE]

InitWith(choices) ==
  /\ \E bps \in choices :
       LET w == NewWaveformFilter(DEFAULT_SAMPLE_RATE_HZ, bps)
       IN  /\ pending_samples_count = w.pending_samples_count
           /\ samples_per_bin = w.samples_per_bin
           /\ filter_bank = w.filter_bank
           /\ filtered_accumulator = w.filtered_accumulator
  /\ pc = "running"
  /\ ret = None
  /\ assert_ok = TRUE
  /\ fed = 0
  /\ spikes = 0
  /\ last_sample = 0
  /\ win = EmptyWin
  /\ ret_win = EmptyWin
  /\ bins_from_add = 0
  /\ samples_from_add = 0
  /\ samples_returned = 0

Init == InitWith(BinsPerSecChoices) /\ NoCall

LongInit == InitWith(BinsPerSecChoices \cup LongBinsPerSecChoices) /\ NoCall

\* One call of add_sample(x).
AddSample(x) ==
  /\ pc = "running"
  /\ \E r \in {AddSampleStep(Self, x)} :
       LET n == IF r.bin.some THEN r.bin.rms_div ELSE 0
       IN  /\ pending_samples_count' = r.w.pending_samples_count
         /\ samples_per_bin' = r.w.samples_per_bin
         /\ filter_bank' = r.w.filter_bank
         /\ filtered_accumulator' = r.w.filtered_accumulator
         /\ ret' = r.bin
         /\ assert_ok' = (assert_ok /\ RmsDivAsserted(r.bin))
         /\ win' = WinAdd(IF r.bin.some THEN EmptyWin ELSE win, x)
         /\ bins_from_add' = bins_from_add + (IF r.bin.some THEN 1 ELSE 0)
         /\ samples_from_add' = samples_from_add + n
         /\ samples_returned' = samples_returned + n
  /\ ret_win' = win
  /\ fed' = fed + 1
  /\ spikes' = spikes + (IF x # 0 THEN 1 ELSE 0)
  /\ last_sample' = x
  /\ pc' = pc
  /\ UNCHANGED <<call, result>>

\* The one call of finish(), which consumes the filter.
Finish ==
  /\ pc = "running"
  /\ \E r \in {FinishStep(Self)} :
         /\ pending_samples_count' = r.w.pending_samples_count
         /\ samples_per_bin' = r.w.samples_per_bin
         /\ filter_bank' = r.w.filter_bank
         /\ filtered_accumulator' = r.w.filtered_accumulator
         /\ ret' = r.bin
         /\ assert_ok' = (assert_ok /\ RmsDivAsserted(r.bin))
         /\ win' = IF r.bin.some THEN EmptyWin ELSE win
         /\ samples_returned' = samples_returned + (IF r.bin.some THEN r.bin.rms_div ELSE 0)
  /\ ret_win' = win
  /\ pc' = "finished"
  /\ UNCHANGED <<fed, spikes, last_sample, bins_from_add, samples_from_add, call, result>>

\* A caller feeding at most MaxSamples samples, at most MaxSpikes of them non-zero.
Feed == \E x \in Samples : fed < MaxSamples /\ (x # 0 => spikes < MaxSpikes) /\ AddSample(x)

Next == Feed \/ Finish

Spec == Init /\ [][Next]_vars

\* A caller feeding a long silent stream.
FeedSilence == fed < MaxLongSamples /\ AddSample(0)

LongNext == FeedSilence \/ Finish

LongSpec == LongInit /\ [][LongNext]_vars

\* ---------------------------------------------------------- pure functions

\* The distances between the two inputs of from_f32 drawn together.
ValSteps == {0, 1, ValDen \div 4}

\* The levels of the constant streams drawn for the derived metrics.
ToneLevels == {k * (One \div 8) : k \in 0..8}

RoundTripCalls == {[fn |-> "round_trip", c |-> c] : c \in 0..MAX_VAL}

FromF32Calls == {[fn |-> "from_f32", x |-> x, y |-> x + d] : x \in 0..MaxValNum, d \in ValSteps}

SpectralFlatnessCalls == {[fn |-> "spectral_flatness", v |-> v] : v \in 0..MAX_VAL}

RatioAmplitudeLinCalls ==
  {[fn |-> "ratio_amplitude_lin", amp |-> a, n |-> n] : a \in ToneLevels, n \in 1..MaxTone}

RECURSIVE FeedTone(_, _, _)
\* n calls of add_sample(a).
FeedTone(w, a, n) == IF n = 0 THEN w ELSE FeedTone(AddSampleStep(w, a).w, a, n - 1)

\* The bin finish() returns after n samples of level a fed to WaveformFilter::default().
ToneBin(a, n) ==
  FinishStep(FeedTone(NewWaveformFilter(DEFAULT_SAMPLE_RATE_HZ, DEFAULT_BINS_PER_SEC), a, n)).bin

PureInit ==
  /\ InitWith({DEFAULT_BINS_PER_SEC})
  /\ call \in RoundTripCalls \cup FromF32Calls \cup SpectralFlatnessCalls
                \cup RatioAmplitudeLinCalls
  /\ result = [done |-> FALSE]

filter_vars ==
  <<pending_samples_count, samples_per_bin, filter_bank, filtered_accumulator,
    pc, ret, assert_ok, fed, spikes, last_sample, win, ret_win, bins_from_add,
    samples_from_add, samples_returned>>

\* tests::waveform_val_to_from_f32: WaveformVal::from_f32(WaveformVal(c).to_f32())
CallRoundTrip ==
  /\ call.fn = "round_trip" /\ ~result.done
  /\ result' = [done |-> TRUE,
                code |-> LET f == ToF32(call.c) IN FromF32(f[1], f[2])]
  /\ UNCHANGED <<filter_vars, call>>

\* WaveformVal::from_f32 of the two inputs x/ValDen and y/ValDen.
CallFromF32 ==
  /\ call.fn = "from_f32" /\ ~result.done
  /\ result' = [done |-> TRUE, cx |-> FromF32(call.x, ValDen), cy |-> FromF32(call.y, ValDen)]
  /\ UNCHANGED <<filter_vars, call>>

\* tests::spectral_flatness_one: spectral_flatness of the flat bin of code v.
CallSpectralFlatness ==
  /\ call.fn = "spectral_flatness" /\ ~result.done
  /\ result' = [done |-> TRUE, flatness |-> SpectralFlatness(FlatBin(call.v))]
  /\ UNCHANGED <<filter_vars, call>>

\* The metrics of the bin WaveformFilter produces from a constant stream.
CallRatioAmplitudeLin ==
  /\ call.fn = "ratio_amplitude_lin" /\ ~result.done
  /\ \E b \in {ToneBin(call.amp, call.n)} :
       result' = [done |-> TRUE, bin |-> b, undo |-> UndoLog2(Ratio(b.all)),
                  lin |-> RatioAmplitudeLin(b)]
  /\ UNCHANGED <<filter_vars, call>>

PureNext == CallRoundTrip \/ CallFromF32 \/ CallSpectralFlatness \/ CallRatioAmplitudeLin

PureSpec == PureInit /\ [][PureNext]_vars

\* ------------------------------------------------------------------ claims

\* floor and ceiling of samples_per_bin, in samples.
FloorSpb == samples_per_bin \div PendUnit

CeilSpb == (samples_per_bin + PendUnit - 1) \div PendUnit

\* Every code of a returned bin.
BinCodes(b) ==
  {b.all.peak, b.all.energy, b.low.peak, b.low.energy,
   b.mid.peak, b.mid.energy, b.high.peak, b.high.energy}

\* C1: sample conservation.  At every moment the samples counted in the bins
\* returned so far plus those still in the accumulator are exactly the samples
\* fed, and once finish() has returned, the returned bins' counts sum to the
\* number of samples fed: none is counted twice, none is dropped.
SampleConservation ==
  /\ pc = "running" => samples_returned + filtered_accumulator.sample_count = fed
  /\ pc = "finished" => samples_returned = fed

\* C1 witness: a finished stream of two add_sample bins and a final bin.
SampleConservationWitness ==
  pc = "finished" /\ bins_from_add = 2 /\ ret.some /\ samples_returned = fed

\* C2 as claimed: N calls of add_sample return floor(N/S) bins and finish()
\* returns a bin only if N mod S # 0.
BinCountClaimed ==
  pc = "finished" =>
    /\ bins_from_add = (fed * PendUnit) \div samples_per_bin
    /\ ret.some => (fed * PendUnit) % samples_per_bin # 0

\* C2 amended: a bin is returned by the call that follows its last sample, so
\* N >= 1 calls of add_sample return floor((N-1)/S) bins, and finish() returns
\* one more bin exactly when N >= 1.
BinCountLazy ==
  /\ bins_from_add = (IF fed = 0 THEN 0 ELSE ((fed - 1) * PendUnit) \div samples_per_bin)
  /\ pc = "finished" => (ret.some <=> fed >= 1)

\* C2 witness: finish() returns a bin after a whole number of bins' samples.
BinCountLazyWitness ==
  /\ pc = "finished" /\ ret.some /\ fed > 0
  /\ (fed * PendUnit) % samples_per_bin = 0
  /\ bins_from_add = (fed * PendUnit) \div samples_per_bin - 1

\* C3: flush-then-feed.  A bin returned by add_sample(x) summarises the samples
\* fed since the previous returned bin and not x: its `all` peak encodes their
\* largest magnitude, its RMS divisor is their count, and x is the one sample
\* of the bin that is now open.
FlushThenFeed ==
  (pc = "running" /\ ret.some) =>
    /\ ret.all.peak = FromF32(ret_win.max, One)
    /\ ret.rms_div = ret_win.count
    /\ filtered_accumulator.sample_count = 1
    /\ filtered_accumulator.all.peak = Abs(last_sample)
    /\ filtered_accumulator.all.rms_sum = last_sample * last_sample

\* C3 witness: a spike triggers the flush of a silent window and is left out of it.
FlushThenFeedWitness ==
  pc = "running" /\ ret.some /\ last_sample # 0 /\ ret.all.peak = 0

\* C4: final flush.  finish() returns a bin exactly when samples were fed since
\* the last returned bin, and no per-band finish ever runs with a count of 0.
FinalFlush ==
  /\ assert_ok
  /\ ret.some => ret.rms_div > 0
  /\ pc = "finished" => (ret.some <=> ret_win.count > 0)

\* C4 witness: finish() flushes a partial window after an add_sample bin.
FinalFlushWitness ==
  pc = "finished" /\ ret.some /\ bins_from_add > 0 /\ ret.rms_div < FloorSpb

\* C5 as claimed: every add_sample bin has floor(S) or ceil(S) samples and the
\* first k bins together hold at least k*S and fewer than k*S + 1 samples.
NoDriftClaimed ==
  /\ samples_per_bin >= MIN_SAMPLES_PER_BIN * PendUnit
  /\ (pc = "running" /\ ret.some) => ret.rms_div \in {FloorSpb, CeilSpb}
  /\ bins_from_add * samples_per_bin <= samples_from_add * PendUnit
  /\ samples_from_add * PendUnit < bins_from_add * samples_per_bin + PendUnit

\* C5 amended: every add_sample bin has floor(S) or ceil(S) samples; the first
\* k bins hold k*S samples up to one sample and up to one f32 spacing u of S
\* per bin; and the claimed bound holds whenever S + 1 is below the power of
\* two at which pending_samples_count + 1.0 starts to be rounded.
NoDriftRounded ==
  /\ samples_per_bin >= MIN_SAMPLES_PER_BIN * PendUnit
  /\ (pc = "running" /\ ret.some) => ret.rms_div \in {FloorSpb, CeilSpb}
  /\ bins_from_add * (samples_per_bin - Ulp(samples_per_bin)) <= samples_from_add * PendUnit
  /\ samples_from_add * PendUnit
       < bins_from_add * (samples_per_bin + Ulp(samples_per_bin)) + PendUnit
  /\ samples_per_bin + PendUnit <= 2 ^ 24 =>
       /\ bins_from_add * samples_per_bin <= samples_from_add * PendUnit
       /\ samples_from_add * PendUnit < bins_from_add * samples_per_bin + PendUnit

\* C5 witness: rounding has made the first k bins shorter than k*S.
NoDriftRoundedWitness ==
  /\ bins_from_add > 0
  /\ samples_from_add * PendUnit < bins_from_add * samples_per_bin
  /\ ret.some /\ ret.rms_div = FloorSpb

\* C9: silence stays silent.  While every sample fed was 0.0, every returned
\* bin has peak code 0 and energy code 0 in all four bands.
SilenceStaysSilent == (spikes = 0 /\ ret.some) => BinCodes(ret) = {0}

\* C9 witness: finish() returns the third bin of a silent stream.
SilenceStaysSilentWitness ==
  spikes = 0 /\ pc = "finished" /\ ret.some /\ bins_from_add = 2

\* What the last call returned, when it was a call of fn.
Returned(fn) == call.fn = fn /\ result.done

\* C6: quantisation round trip.  Encoding the decoded value of a code gives
\* the code back, for each of the 256 codes.
RoundTripExact == Returned("round_trip") => result.code = call.c

\* C6 witness: the round trip of the largest code below saturation.
RoundTripExactWitness == Returned("round_trip") /\ call.c = MAX_VAL - 1 /\ result.code = call.c

\* C7: the encoding is floor(x * 256) clamped to 0..255: the code c of x < 1
\* has c/256 <= x < (c+1)/256, every x >= 1 encodes to 255, a larger input
\* never has a smaller code, and 0, 1/4, 1/2, 3/4, 1 encode to 0, 64, 128, 192, 255.
EncodingFunction ==
  Returned("from_f32") =>
    /\ result.cx \in 0..MAX_VAL
    /\ call.x < ValDen =>
         /\ result.cx * ValDen <= (MAX_VAL + 1) * call.x
         /\ (MAX_VAL + 1) * call.x < (result.cx + 1) * ValDen
    /\ call.x >= ValDen => result.cx = MAX_VAL
    /\ call.x <= call.y => result.cx <= result.cy
    /\ call.x = 0 => result.cx = 0
    /\ call.x = ValDen \div 4 => result.cx = 64
    /\ call.x = ValDen \div 2 => result.cx = 128
    /\ call.x = 3 * (ValDen \div 4) => result.cx = 192
    /\ call.x = ValDen => result.cx = MAX_VAL

\* C7 witness: 0.75 and 1.0 encoded together.
EncodingFunctionWitness ==
  /\ Returned("from_f32") /\ call.x = 3 * (ValDen \div 4) /\ call.y = ValDen
  /\ result.cx = 192 /\ result.cy = MAX_VAL

Tolerance == One \div 64

\* C10: one scaling convention end to end.  What spectral_flatness and
\* ratio_amplitude_lin decode from a bin the WaveformFilter produced, exp2(v) - 1,
\* is the RMS the accumulator encoded, and the linear amplitude is
\* min(RMS * sqrt 2, 1).  (The RMS of a constant stream is its level.)
OneConvention ==
  Returned("ratio_amplitude_lin") =>
    /\ Abs(result.undo - call.amp) <= Tolerance
    /\ Abs(result.lin - Min((call.amp * Sqrt2) \div One, One)) <= Tolerance

====
